---- MODULE Spec2Model ----
\* RTMP ingest handler of src/hls/main.go: one Handler per accepted connection,
\* driven by the callbacks OnPublish, OnSetDataFrame, OnAudio, OnVideo, OnClose.
\* Each Handler spawns ffmpeg, keeps its stdin pipe and an FLV encoder on it.
EXTENDS Naturals, Sequences, FiniteSets

\* ---------------------------------------------------------------- bounds
\* Callbacks delivered in one run, over all connections.
MaxCalls == 3

\* The connections the listener accepts in one run.
Connections == {1, 2}

\* Sample values of the uint32 timestamp argument of the frame callbacks.
Timestamps == {1, 2}

\* --------------------------------------------------------------- state
VARIABLES
    h,          \* h[s]: the Handler of connection s (ffmpegCmd, ffmpegIn, flvEnc)
    procs,      \* started ffmpeg processes, by handle
    pipes,      \* stdin pipes obtained from StdinPipe, by handle
    dirs,       \* directories MkdirAll has been asked for and returned nil
    closeCalls, \* closeCalls[s]: number of OnClose calls begun on connection s
    panicked,   \* panicked[s]: a callback of connection s hit a nil dereference
    fpc,        \* fpc[s]: the frame callback in flight between decode and Encode
    cpc,        \* cpc[s]: whether an OnClose is in flight between pipe close and kill
    last,       \* the callback that returned last, its input and its result
    calls       \* number of callbacks started so far

vars == <<h, procs, pipes, dirs, closeCalls, panicked, fpc, cpc, last, calls>>

\* A nil pointer / nil interface value.
Nil == 0

\* The connections accepted so far, in the order of their OnConnect.
Sessions == DOMAIN h

\* A Handler made once and handed to every connection, already holding the
\* first connection's process, pipe and encoder.
HandlerShared == [ffmpegCmd |-> 1, ffmpegIn |-> 1, flvEnc |-> 1]

\* type Handler struct { ffmpegCmd; ffmpegIn; flvEnc }, zero value (&Handler{}).
\* ffmpegCmd holds a handle into procs, ffmpegIn a handle into pipes, flvEnc the
\* handle of the pipe the encoder was created on.
Handler == [ffmpegCmd |-> Nil, ffmpegIn |-> Nil, flvEnc |-> Nil]

\* ---------------------------------------------------------------- paths
\* A path is [abs, comps]: whether it starts with a separator, and its
\* components. The empty string is the relative path with no components.
Path(abs, comps) == [abs |-> abs, comps |-> comps]

\* The literal "public" of filepath.Join("public", ...).
OutputRoot == Path(FALSE, <<"public">>)

\* filepath.Clean, lexically: "." and empty components go, ".." removes the
\* component before it, is dropped at the root, and is kept otherwise.
RECURSIVE CleanComps(_, _, _)
CleanComps(abs, comps, out) ==
    IF comps = <<>> THEN out
    ELSE LET c == Head(comps)
             rest == Tail(comps)
         IN  IF c = "." \/ c = ""
               THEN CleanComps(abs, rest, out)
             ELSE IF c = ".."
               THEN IF out # <<>> /\ out[Len(out)] # ".."
                      THEN CleanComps(abs, rest, SubSeq(out, 1, Len(out) - 1))
                    ELSE IF abs
                      THEN CleanComps(abs, rest, out)
                    ELSE CleanComps(abs, rest, Append(out, ".."))
             ELSE CleanComps(abs, rest, Append(out, c))

Clean(p) == Path(p.abs, CleanComps(p.abs, p.comps, <<>>))

\* filepath.Join(a, b): a, separator, b, then Clean. b's own leading separator
\* becomes an empty component.
Join(a, b) == Clean(Path(a.abs, a.comps \o b.comps))

\* outputDir := filepath.Join("public", filepath.Clean(cmd.PublishingName))
OutputDir(name) == Join(OutputRoot, Clean(name))

\* The check for the empty name left out.
IsEmptyNameNever(name) == FALSE

\* cmd.PublishingName == ""
IsEmptyName(name) == name.abs = FALSE /\ name.comps = <<>>

\* Publishing names a client may send: "", "a", "../../etc", "/b/../..".
PublishingNames ==
    { Path(FALSE, <<>>),
      Path(FALSE, <<"a">>),
      Path(FALSE, <<"..", "..", "etc">>),
      Path(TRUE, <<"b", "..", "..">>) }

\* ------------------------------------------------------------ resources
\* The pipe ffmpegCmd.StdinPipe() returns, as the handler sees it: how often
\* Close was called on it, whether the FLV header went through, the tags
\* written to it, and the number of Encode calls made on its encoder.
NewPipe(s) == [owner |-> s, closes |-> 0, header |-> FALSE, tags |-> <<>>, encodes |-> 0]

\* A process ffmpegCmd.Start() started: its output directory and the number of
\* Process.Kill() signals sent to it.
NewProcess(s, dir) == [owner |-> s, dir |-> dir, kills |-> 0]

\* ffmpegStdin.Close() / h.ffmpegIn.Close()
ClosePipe(ps, p) == [ps EXCEPT ![p].closes = @ + 1]

\* ffmpegCmd.Process.Kill() / h.ffmpegCmd.Process.Kill()
KillProcess(cs, c) == [cs EXCEPT ![c].kills = @ + 1]

\* The session state of the design, read off the Handler: Closed once OnClose
\* has been called, Publishing while an encoder is bound, Idle otherwise.
State(s) == IF closeCalls[s] > 0 THEN "Closed"
            ELSE IF h[s].flvEnc # Nil THEN "Publishing"
            ELSE "Idle"

\* ------------------------------------------------------------ callbacks
\* The record of the callback that returned last.
Returned(s, op, name, ts, res, ret) ==
    [sess |-> s, op |-> op, name |-> name, ts |-> ts, res |-> res, ret |-> ret]

NoName == Path(FALSE, <<"-">>)

\* Callbacks of one connection are delivered serially; none follows a panic
\* but the OnClose of the connection's teardown.
Serial(s) == /\ calls < MaxCalls
             /\ ~panicked[s]
             /\ fpc[s] = <<>>

\* The step of OnPublish that fails, if any: os.MkdirAll, Cmd.StdinPipe,
\* Cmd.Start, flv.NewEncoder.
PublishFailures == {"none", "mkdir", "stdinpipe", "start", "encoder"}

\* The encoder stored without the process handle and the pipe.
PublishFieldsEncoderOnly(hs, cmd, pipe, encOk) ==
    [ffmpegCmd |-> hs.ffmpegCmd,
     ffmpegIn  |-> hs.ffmpegIn,
     flvEnc    |-> IF encOk THEN pipe ELSE hs.flvEnc]

\* h.ffmpegCmd = ffmpegCmd; h.ffmpegIn = ffmpegStdin; and, when NewEncoder
\* returned no error, h.flvEnc = enc.
PublishFields(hs, cmd, pipe, encOk) ==
    [ffmpegCmd |-> cmd,
     ffmpegIn  |-> pipe,
     flvEnc    |-> IF encOk THEN pipe ELSE hs.flvEnc]

OnPublish(s, name, fail) ==
    /\ Serial(s)
    /\ calls' = calls + 1
    /\ UNCHANGED <<closeCalls, panicked, fpc, cpc>>
    /\ LET outputDir == OutputDir(name)
           pipe == Len(pipes) + 1
           cmd == Len(procs) + 1
           encOk == fail # "encoder"
       IN  IF IsEmptyName(name) \/ fail = "mkdir"
             THEN /\ UNCHANGED <<h, procs, pipes, dirs>>
                  /\ last' = Returned(s, "OnPublish", name, 0, fail, "error")
           ELSE IF fail = "stdinpipe"
             THEN /\ dirs' = dirs \cup {outputDir}
                  /\ UNCHANGED <<h, procs, pipes>>
                  /\ last' = Returned(s, "OnPublish", name, 0, fail, "error")
           ELSE IF fail = "start"
             \* Cmd.Start closes the pipe itself when it fails.
             THEN /\ dirs' = dirs \cup {outputDir}
                  /\ pipes' = ClosePipe(Append(pipes, NewPipe(s)), pipe)
                  /\ UNCHANGED <<h, procs>>
                  /\ last' = Returned(s, "OnPublish", name, 0, fail, "error")
           ELSE /\ dirs' = dirs \cup {outputDir}
                /\ h' = [h EXCEPT ![s] = PublishFields(h[s], cmd, pipe, encOk)]
                /\ pipes' = IF encOk
                              THEN [Append(pipes, NewPipe(s)) EXCEPT ![pipe].header = TRUE]
                              ELSE ClosePipe(Append(pipes, NewPipe(s)), pipe)
                /\ procs' = IF encOk
                              THEN Append(procs, NewProcess(s, outputDir))
                              ELSE KillProcess(Append(procs, NewProcess(s, outputDir)), cmd)
                /\ last' = Returned(s, "OnPublish", name, 0, fail,
                                    IF encOk THEN "nil" ELSE "error")

\* What happens to a frame: its payload fails to decode, it decodes and the
\* write fails, or it decodes and is written.
FrameResults == {"decode", "write", "ok"}

\* &flvtag.FlvTag{TagType, Timestamp, Data}
TagType(op) == IF op = "OnSetDataFrame" THEN "script"
               ELSE IF op = "OnAudio" THEN "audio" ELSE "video"

\* The tag built without the callback's timestamp.
FlvTagNoTimestamp(op, ts) == [type |-> TagType(op), ts |-> 0]

FlvTag(op, ts) == [type |-> TagType(op), ts |-> ts]

\* Every frame callback swallowing its decode error, as OnSetDataFrame does.
DecodeFailureReturnNil(op) == "nil"

\* Every frame callback surfacing its decode error, as OnAudio and OnVideo do.
DecodeFailureReturnErr(op) == "error"

\* The value a frame callback returns when its payload does not decode:
\* OnSetDataFrame logs and returns nil, OnAudio and OnVideo return err.
DecodeFailureReturn(op) == IF op = "OnSetDataFrame" THEN "nil" ELSE "error"

\* h.flvEnc.Encode(tag) on the encoder bound to pipe e: the call is made, and
\* the tag reaches the pipe when the write succeeds, which it cannot on a pipe
\* already closed.
Written(ps, e, res) == res = "ok" /\ ps[e].closes = 0

\* A failed write tried a second time.
EncodeRetry(ps, e, tag, res) ==
    [ps EXCEPT ![e].encodes = IF Written(ps, e, res) THEN @ + 1 ELSE @ + 2,
               ![e].tags = IF Written(ps, e, res) THEN Append(@, tag) ELSE @]

Encode(ps, e, tag, res) ==
    [ps EXCEPT ![e].encodes = @ + 1,
               ![e].tags = IF Written(ps, e, res) THEN Append(@, tag) ELSE @]

\* The common shape of OnSetDataFrame, OnAudio and OnVideo: decode, then
\* Encode on h.flvEnc; a write error is logged and nil returned.
DecodeFails(s, op, ts) ==
    /\ UNCHANGED <<pipes, panicked>>
    /\ last' = Returned(s, op, NoName, ts, "decode", DecodeFailureReturn(op))

\* The Encode call and the return after it; a nil h.flvEnc is dereferenced.
EncodeAndReturn(s, op, ts, res) ==
    IF h[s].flvEnc = Nil
      THEN /\ panicked' = [panicked EXCEPT ![s] = TRUE]
           /\ UNCHANGED pipes
           /\ last' = Returned(s, op, NoName, ts, res, "panic")
    ELSE /\ pipes' = Encode(pipes, h[s].flvEnc, FlvTag(op, ts), res)
         /\ UNCHANGED panicked
         /\ last' = Returned(s, op, NoName, ts,
                             IF Written(pipes, h[s].flvEnc, res) THEN "ok" ELSE "write",
                             "nil")

\* A frame callback that drops the encoder when its write fails.
FrameDroppingEncoder(s, op, ts, res) ==
    /\ Serial(s)
    /\ cpc[s] = FALSE
    /\ calls' = calls + 1
    /\ UNCHANGED <<procs, dirs, closeCalls, fpc, cpc>>
    /\ h' = IF res = "write" /\ h[s].flvEnc # Nil
              THEN [h EXCEPT ![s].flvEnc = Nil]
              ELSE h
    /\ IF res = "decode" THEN DecodeFails(s, op, ts)
                         ELSE EncodeAndReturn(s, op, ts, res)

Frame(s, op, ts, res) ==
    /\ Serial(s)
    /\ cpc[s] = FALSE
    /\ calls' = calls + 1
    /\ UNCHANGED <<h, procs, dirs, closeCalls, fpc, cpc>>
    /\ IF res = "decode" THEN DecodeFails(s, op, ts)
                         ELSE EncodeAndReturn(s, op, ts, res)

OnSetDataFrame(s, ts, res) == Frame(s, "OnSetDataFrame", ts, res)

OnAudio(s, ts, res) == Frame(s, "OnAudio", ts, res)

OnVideo(s, ts, res) == Frame(s, "OnVideo", ts, res)

\* if h.flvEnc != nil { _ = h.ffmpegIn.Close() }
CloseGuard(hs) == hs.flvEnc # Nil

\* if h.ffmpegCmd != nil && h.ffmpegCmd.Process != nil { Kill() }; only
\* started commands are ever stored, so Process is set whenever ffmpegCmd is.
KillGuard(hs) == hs.ffmpegCmd # Nil

\* OnClose without its pipe close.
OnClosePipesNone(hs, ps) == ps

OnClosePipes(hs, ps) ==
    IF CloseGuard(hs) /\ hs.ffmpegIn # Nil THEN ClosePipe(ps, hs.ffmpegIn) ELSE ps

OnCloseProcs(hs, cs) ==
    IF KillGuard(hs) THEN KillProcess(cs, hs.ffmpegCmd) ELSE cs

\* OnClose may follow a panic (the connection is torn down), and may be
\* called again after it has run.
OnClose(s) ==
    /\ calls < MaxCalls
    /\ fpc[s] = <<>>
    /\ cpc[s] = FALSE
    /\ calls' = calls + 1
    /\ closeCalls' = [closeCalls EXCEPT ![s] = @ + 1]
    /\ UNCHANGED <<h, dirs, fpc, cpc>>
    /\ IF CloseGuard(h[s]) /\ h[s].ffmpegIn = Nil
         THEN /\ panicked' = [panicked EXCEPT ![s] = TRUE]
              /\ UNCHANGED <<pipes, procs>>
              /\ last' = Returned(s, "OnClose", NoName, 0, "none", "panic")
       ELSE /\ pipes' = OnClosePipes(h[s], pipes)
            /\ procs' = OnCloseProcs(h[s], procs)
            /\ UNCHANGED panicked
            /\ last' = Returned(s, "OnClose", NoName, 0, "none", "nil")

\* ------------------------------------------------------- specification
\* The server before any connection is accepted.
Init ==
    /\ h = <<>>
    /\ procs = <<>>
    /\ pipes = <<>>
    /\ dirs = {}
    /\ closeCalls = <<>>
    /\ panicked = <<>>
    /\ fpc = <<>>
    /\ cpc = <<>>
    /\ last = Returned(0, "none", NoName, 0, "none", "none")
    /\ calls = 0

\* OnConnect: h := &Handler{} for the accepted connection, which no callback
\* has reached yet.
OnConnect ==
    /\ Len(h) < Cardinality(Connections)
    /\ h' = Append(h, Handler)
    /\ closeCalls' = Append(closeCalls, 0)
    /\ panicked' = Append(panicked, FALSE)
    /\ fpc' = Append(fpc, <<>>)
    /\ cpc' = Append(cpc, FALSE)
    /\ UNCHANGED <<procs, pipes, dirs, last, calls>>

Next ==
    \/ OnConnect
    \/ \E s \in Sessions, name \in PublishingNames, fail \in PublishFailures :
          OnPublish(s, name, fail)
    \/ \E s \in Sessions, ts \in Timestamps, res \in FrameResults :
          OnSetDataFrame(s, ts, res)
    \/ \E s \in Sessions, ts \in Timestamps, res \in FrameResults :
          OnAudio(s, ts, res)
    \/ \E s \in Sessions, ts \in Timestamps, res \in FrameResults :
          OnVideo(s, ts, res)
    \/ \E s \in Sessions : OnClose(s)

Spec == Init /\ [][Next]_vars

\* ------------------------------------------- OnClose beside a frame callback
\* The Handler holds no lock: an OnClose issued from another goroutine runs
\* beside a frame callback of the same connection, and their pipe operations
\* interleave at the calls they make.
FrameOps == {"OnSetDataFrame", "OnAudio", "OnVideo"}

\* A frame callback up to its decode: a payload that fails to decode returns,
\* the others go on to Encode.
FrameDecode(s, op, ts, res) ==
    /\ Serial(s)
    /\ calls' = calls + 1
    /\ UNCHANGED <<h, procs, dirs, closeCalls, cpc>>
    /\ IF res = "decode"
         THEN /\ DecodeFails(s, op, ts)
              /\ UNCHANGED fpc
         ELSE /\ fpc' = [fpc EXCEPT ![s] = <<[op |-> op, ts |-> ts, res |-> res]>>]
              /\ UNCHANGED <<pipes, panicked, last>>

\* The rest of the frame callback: h.flvEnc.Encode and the return.
FrameEncode(s) ==
    /\ fpc[s] # <<>>
    /\ fpc' = [fpc EXCEPT ![s] = <<>>]
    /\ UNCHANGED <<h, procs, dirs, closeCalls, cpc, calls>>
    /\ EncodeAndReturn(s, fpc[s][1].op, fpc[s][1].ts, fpc[s][1].res)

\* OnClose up to the end of its first if: the pipe close.
CloseBegin(s) ==
    /\ calls < MaxCalls
    /\ cpc[s] = FALSE
    /\ calls' = calls + 1
    /\ closeCalls' = [closeCalls EXCEPT ![s] = @ + 1]
    /\ UNCHANGED <<h, dirs, procs, fpc, last>>
    /\ IF CloseGuard(h[s]) /\ h[s].ffmpegIn = Nil
         THEN /\ panicked' = [panicked EXCEPT ![s] = TRUE]
              /\ UNCHANGED <<pipes, cpc>>
       ELSE /\ pipes' = OnClosePipes(h[s], pipes)
            /\ cpc' = [cpc EXCEPT ![s] = TRUE]
            /\ UNCHANGED panicked

\* The second if of OnClose: the kill, and the return.
CloseEnd(s) ==
    /\ cpc[s] = TRUE
    /\ cpc' = [cpc EXCEPT ![s] = FALSE]
    /\ procs' = OnCloseProcs(h[s], procs)
    /\ last' = Returned(s, "OnClose", NoName, 0, "none", "nil")
    /\ UNCHANGED <<h, pipes, dirs, closeCalls, panicked, fpc, calls>>

NextConc ==
    \/ OnConnect
    \/ \E s \in Sessions, name \in PublishingNames, fail \in PublishFailures :
          OnPublish(s, name, fail)
    \/ \E s \in Sessions, op \in FrameOps, ts \in Timestamps, res \in FrameResults :
          FrameDecode(s, op, ts, res)
    \/ \E s \in Sessions : FrameEncode(s)
    \/ \E s \in Sessions : CloseBegin(s)
    \/ \E s \in Sessions : CloseEnd(s)

SpecConc == Init /\ [][NextConc]_vars

\* ------------------------------------------------------------- properties
\* The step is a whole run of callback op on connection s.
Called(op, s) == /\ calls' = calls + 1
                 /\ last'.op = op
                 /\ last'.sess = s

\* The step is a whole run of a frame callback on connection s.
FrameCalled(s) == \E op \in FrameOps : Called(op, s)

\* The publishing name "".
EmptyName == Path(FALSE, <<>>)

\* Whether a cleaned relative path is the output root or lies below it.
UnderRoot(p) == /\ p.abs = FALSE
                /\ Len(p.comps) >= Len(OutputRoot.comps)
                /\ SubSeq(p.comps, 1, Len(OutputRoot.comps)) = OutputRoot.comps

\* The pipes and processes obtained for connection s.
PipesOf(s) == {p \in DOMAIN pipes : pipes[p].owner = s}
ProcsOf(s) == {c \in DOMAIN procs : procs[c].owner = s}

\* C1: an OnPublish on a connection that is Publishing (an earlier OnPublish
\* succeeded, no OnClose since) starts no further ffmpeg process and leaves
\* h.ffmpegIn referring to the first process's pipe.
C1_SecondPublishSpawnsNothing ==
    [][\A s \in Sessions :
          (State(s) = "Publishing" /\ Called("OnPublish", s))
              => (procs' = procs /\ h'[s].ffmpegIn = h[s].ffmpegIn)]_vars

\* C2: an OnClose on a connection on which OnClose has already run closes no
\* pipe, sends no kill signal and leaves the Handler as the first call left it.
C2_RepeatedCloseIsNoOp ==
    [][\A s \in Sessions :
          (closeCalls[s] >= 1 /\ Called("OnClose", s))
              => (pipes' = pipes /\ procs' = procs /\ h' = h)]_vars

\* C3: after OnClose has run on a connection, a frame callback on it makes no
\* Encode call, changes no resource and does not panic.
C3_FrameAfterCloseIsNoOp ==
    [][\A s \in Sessions :
          (closeCalls[s] >= 1 /\ FrameCalled(s))
              => (/\ pipes' = pipes
                  /\ procs' = procs
                  /\ h' = h
                  /\ last'.ret # "panic")]_vars

\* C4: a frame callback reaches its Encode call (its payload decoded) only on
\* a connection that is Publishing: not before an OnPublish succeeded, not
\* after OnClose began.
C4_EncodeOnlyWhilePublishing ==
    [][\A s \in Sessions :
          (FrameCalled(s) /\ last'.res # "decode") => State(s) = "Publishing"]_vars

\* C5: on a connection that has entered Publishing (an encoder was bound for
\* it), no pipe is ever closed more than once and no process killed more than
\* once, and when the connection leaves Publishing each pipe obtained for it
\* has been closed exactly once and each process started for it killed exactly
\* once.
C5_ReleasedExactlyOnce ==
    [][\A s \in Sessions :
          (\E e \in DOMAIN pipes : pipes[e].owner = s /\ pipes[e].header)
              => /\ \A p \in DOMAIN pipes' :
                       pipes'[p].owner = s => pipes'[p].closes <= 1
                 /\ \A c \in DOMAIN procs' :
                       procs'[c].owner = s => procs'[c].kills <= 1
                 /\ (State(s) = "Publishing" /\ State(s)' # "Publishing")
                       => (/\ \A p \in DOMAIN pipes' :
                                 pipes'[p].owner = s => pipes'[p].closes = 1
                           /\ \A c \in DOMAIN procs' :
                                 procs'[c].owner = s => procs'[c].kills = 1)]_vars

\* C6: an OnPublish on an Idle connection that fails at Cmd.Start or at
\* flv.NewEncoder returns an error, leaves the connection Idle with ffmpegCmd,
\* ffmpegIn and flvEnc all nil, and has closed each pipe and killed each
\* process it obtained exactly once.
C6_FailedStartupHoldsNothing ==
    [][\A s \in Sessions :
          (/\ State(s) = "Idle"
           /\ Called("OnPublish", s)
           /\ last'.res \in {"start", "encoder"}
           /\ last'.name # EmptyName)
              => (/\ last'.ret = "error"
                  /\ State(s)' = "Idle"
                  /\ h'[s] = Handler
                  /\ \A p \in DOMAIN pipes' \ DOMAIN pipes : pipes'[p].closes = 1
                  /\ \A c \in DOMAIN procs' \ DOMAIN procs : procs'[c].kills = 1)]_vars

\* C7: while an OnClose is in flight beside a frame callback of the same
\* connection, the frame callback's Encode is never made on a pipe that has
\* been closed, and no pipe of the connection is closed twice nor process
\* killed twice.
C7_NoEncodeOnClosedPipe ==
    [][\A s \in Sessions :
          (fpc[s] # <<>> /\ cpc[s] = TRUE /\ fpc'[s] = <<>>)
              => (/\ \A p \in DOMAIN pipes :
                        pipes'[p].encodes > pipes[p].encodes => pipes[p].closes = 0
                  /\ \A p \in PipesOf(s) : pipes'[p].closes <= 1
                  /\ \A c \in ProcsOf(s) : procs'[c].kills <= 1)]_vars

\* C8: an OnPublish whose name, cleaned and joined to "public", leaves the
\* output root returns an error, creates no directory and spawns no process;
\* and every directory an OnPublish creates lies under the output root.
C8_TraversalRejected ==
    [][\A s \in Sessions :
          Called("OnPublish", s)
              => (/\ ~UnderRoot(OutputDir(last'.name))
                        => (/\ last'.ret = "error"
                            /\ dirs' = dirs
                            /\ procs' = procs)
                  /\ \A d \in dirs' \ dirs : UnderRoot(d))]_vars

\* C9: OnPublish with the empty publishing name returns an error, leaves an
\* Idle connection Idle, creates no directory, spawns no process, obtains no
\* pipe and changes no Handler field.
C9_EmptyNameRejected ==
    [][\A s \in Sessions :
          (Called("OnPublish", s) /\ last'.name = EmptyName)
              => (/\ last'.ret = "error"
                  /\ State(s)' = State(s)
                  /\ UNCHANGED <<h, procs, pipes, dirs>>)]_vars

\* An OnPublish("") has returned an error on an Idle connection.
C9_Witness ==
    /\ last.op = "OnPublish"
    /\ last.name = EmptyName
    /\ last.ret = "error"
    /\ last.res = "none"
    /\ State(last.sess) = "Idle"

\* C10: an OnAudio or OnVideo call whose payload fails to decode returns a
\* non-nil error and makes no Encode call or write on any pipe.
C10_MediaDecodeErrorReturned ==
    [][\A s \in Sessions :
          ((Called("OnAudio", s) \/ Called("OnVideo", s)) /\ last'.res = "decode")
              => (last'.ret = "error" /\ pipes' = pipes)]_vars

\* An OnVideo with an undecodable payload has returned on a Publishing
\* connection whose encoder had already taken a frame.
C10_Witness ==
    /\ last.op = "OnVideo"
    /\ last.res = "decode"
    /\ last.ret = "error"
    /\ State(last.sess) = "Publishing"
    /\ pipes[h[last.sess].flvEnc].encodes = 1

\* C11: an OnSetDataFrame call whose payload fails to decode returns nil,
\* makes no Encode call or write on any pipe, and leaves the connection's
\* state, its Handler and its processes as they were, without a panic.
C11_MetadataDecodeErrorAbsorbed ==
    [][\A s \in Sessions :
          (Called("OnSetDataFrame", s) /\ last'.res = "decode")
              => (/\ last'.ret = "nil"
                  /\ pipes' = pipes
                  /\ State(s)' = State(s)
                  /\ UNCHANGED <<h, procs, panicked>>)]_vars

\* Two OnSetDataFrame calls with undecodable payloads have returned nil on a
\* Publishing connection, and nothing has reached its encoder.
C11_Witness ==
    /\ calls = 3
    /\ last.op = "OnSetDataFrame"
    /\ last.res = "decode"
    /\ last.ret = "nil"
    /\ State(last.sess) = "Publishing"
    /\ pipes[h[last.sess].flvEnc].encodes = 0

\* C12: on a Publishing connection, a frame callback whose payload decodes and
\* whose write fails returns nil, leaves the connection Publishing with its
\* Handler unchanged, has made exactly one Encode call (no retry) and written
\* no tag, and leaves the connection able to take further frame callbacks.
C12_WriteFailureAbsorbed ==
    [][\A s \in Sessions :
          (State(s) = "Publishing" /\ FrameCalled(s) /\ last'.res = "write")
              => (/\ last'.ret = "nil"
                  /\ State(s)' = "Publishing"
                  /\ h' = h
                  /\ pipes'[h[s].flvEnc].encodes = pipes[h[s].flvEnc].encodes + 1
                  /\ pipes'[h[s].flvEnc].tags = pipes[h[s].flvEnc].tags
                  /\ \A p \in DOMAIN pipes :
                        p # h[s].flvEnc => pipes'[p] = pipes[p]
                  /\ ~panicked'[s]
                  /\ fpc'[s] = <<>>)]_vars

\* A frame has been written on a Publishing connection after an earlier
\* frame's write on the same encoder failed.
C12_Witness ==
    /\ last.op \in FrameOps
    /\ last.res = "ok"
    /\ last.ret = "nil"
    /\ State(last.sess) = "Publishing"
    /\ pipes[h[last.sess].flvEnc].encodes = 2
    /\ Len(pipes[h[last.sess].flvEnc].tags) = 1

\* C13: an OnClose on a connection whose encoder is bound closes the pipe
\* h.ffmpegIn in its first part, sending no kill signal there, and sends the
\* kill signal to h.ffmpegCmd in its second part, closing no pipe there; and
\* each part of every OnClose, whatever the connection's state, leaves the
\* connection Closed.
C13_CloseThenKill ==
    [][\A s \in Sessions :
          /\ (cpc[s] = FALSE /\ cpc'[s] = TRUE)
                => (/\ State(s)' = "Closed"
                    /\ procs' = procs
                    /\ h[s].flvEnc # Nil
                          => pipes'[h[s].ffmpegIn].closes
                                = pipes[h[s].ffmpegIn].closes + 1)
          /\ (cpc[s] = TRUE /\ cpc'[s] = FALSE)
                => (/\ State(s)' = "Closed"
                    /\ pipes' = pipes
                    /\ h[s].ffmpegCmd # Nil
                          => procs'[h[s].ffmpegCmd].kills
                                = procs[h[s].ffmpegCmd].kills + 1)]_vars

\* An OnClose has returned on a connection that was Publishing: its pipe has
\* been closed and its process sent the kill signal.
C13_Witness ==
    /\ last.op = "OnClose"
    /\ last.ret = "nil"
    /\ closeCalls[last.sess] = 1
    /\ cpc[last.sess] = FALSE
    /\ h[last.sess].flvEnc # Nil
    /\ pipes[h[last.sess].ffmpegIn].closes = 1
    /\ procs[h[last.sess].ffmpegCmd].kills = 1

\* C14: a connection never has more than one ffmpeg process that was started
\* and has not been sent the kill signal.
C14_AtMostOneLiveProcess ==
    \A s \in Sessions :
        Cardinality({c \in ProcsOf(s) : procs[c].kills = 0}) <= 1

\* The tag type that belongs to each frame callback.
TagTypeOf(op) == CASE op = "OnSetDataFrame" -> "script"
                   [] op = "OnAudio" -> "audio"
                   [] op = "OnVideo" -> "video"

\* C15: on a Publishing connection, a frame callback whose payload decodes and
\* whose write succeeds appends exactly one tag to what the encoder's pipe has
\* received, of the callback's type and with the callback's timestamp, and
\* changes no other pipe; so the pipe's tags are the written frames in
\* callback order.
C15_OneTagPerWrittenFrame ==
    [][\A s \in Sessions :
          (State(s) = "Publishing" /\ FrameCalled(s) /\ last'.res = "ok")
              => (/\ pipes'[h[s].flvEnc].tags
                        = Append(pipes[h[s].flvEnc].tags,
                                 [type |-> TagTypeOf(last'.op), ts |-> last'.ts])
                  /\ \A p \in DOMAIN pipes :
                        p # h[s].flvEnc => pipes'[p] = pipes[p])]_vars

\* An audio frame with timestamp 1 and then a video frame with timestamp 2
\* have been written on a Publishing connection.
C15_Witness ==
    /\ last.op = "OnVideo"
    /\ last.res = "ok"
    /\ State(last.sess) = "Publishing"
    /\ pipes[h[last.sess].flvEnc].tags
          = <<[type |-> "audio", ts |-> 1], [type |-> "video", ts |-> 2]>>

\* C16: OnConnect gives the accepted connection a Handler with no process, no
\* pipe and no encoder and leaves the other Handlers alone; and a callback on
\* one connection leaves every other connection's Handler and state unchanged,
\* and its pipes and processes untouched.
C16_SessionsIndependent ==
    [][/\ Len(h') > Len(h)
            => (/\ h'[Len(h')] = [ffmpegCmd |-> Nil, ffmpegIn |-> Nil, flvEnc |-> Nil]
                /\ \A t \in Sessions : h'[t] = h[t] /\ State(t)' = State(t))
       /\ \A s \in Sessions :
            (calls' = calls + 1 /\ last'.sess = s)
                => \A t \in Sessions \ {s} :
                      /\ h'[t] = h[t]
                      /\ State(t)' = State(t)
                      /\ \A p \in DOMAIN pipes :
                            pipes[p].owner = t => pipes'[p] = pipes[p]
                      /\ \A c \in DOMAIN procs :
                            procs[c].owner = t => procs'[c] = procs[c]]_vars

\* A callback has run on one connection while another connection is
\* Publishing with its own process.
C16_Witness ==
    /\ Len(h) = 2
    /\ last.sess = 2
    /\ last.op = "OnPublish"
    /\ last.ret = "nil"
    /\ State(1) = "Publishing"
    /\ State(2) = "Publishing"
    /\ h[1].ffmpegCmd # h[2].ffmpegCmd

\* C17: once OnClose has run on a connection, an OnPublish on it creates no
\* directory, starts no process, obtains no pipe and binds no encoder, and no
\* callback moves the connection out of Closed.
C17_ClosedIsTerminal ==
    [][\A s \in Sessions :
          /\ State(s) = "Closed" => State(s)' = "Closed"
          /\ (State(s) = "Closed" /\ Called("OnPublish", s))
                => (/\ dirs' = dirs
                    /\ procs' = procs
                    /\ pipes' = pipes
                    /\ h' = h)]_vars

\* C18: an OnClose on a connection on which no OnPublish has succeeded (no
\* encoder is bound), whatever OnPublish calls failed before, closes no pipe
\* and sends no kill signal; it only marks the connection Closed.
C18_IdleCloseReleasesNothing ==
    [][\A s \in Sessions :
          (h[s].flvEnc = Nil /\ Called("OnClose", s))
              => (/\ pipes' = pipes
                  /\ procs' = procs
                  /\ h' = h
                  /\ State(s)' = "Closed")]_vars

\* C19: whenever a Handler's flvEnc is present, its ffmpegIn refers to a pipe
\* and its ffmpegCmd to a started process, so no OnClose dereferences an
\* absent pipe.
C19_EncoderImpliesPipeAndProcess ==
    /\ \A s \in Sessions :
          h[s].flvEnc # Nil
              => (/\ h[s].ffmpegIn \in DOMAIN pipes
                  /\ h[s].ffmpegCmd \in DOMAIN procs)
    /\ ~(last.op = "OnClose" /\ last.ret = "panic")

\* An OnClose has closed the pipe of a Handler whose encoder is present.
C19_Witness ==
    /\ last.op = "OnClose"
    /\ last.ret = "nil"
    /\ h[last.sess].flvEnc # Nil
    /\ pipes[h[last.sess].ffmpegIn].closes = 1

\* C20: no OnSetDataFrame, OnAudio or OnVideo call changes ffmpegCmd, ffmpegIn
\* or flvEnc of any Handler, whether its payload fails to decode, its write
\* fails, it is written, or it panics.
C20_FramesKeepHandlerFields ==
    [][\A s \in Sessions : FrameCalled(s) => h' = h]_vars

\* A frame callback whose payload failed to decode has returned on a
\* Publishing connection after one whose write failed, and the Handler still
\* holds its process, pipe and encoder.
C20_Witness ==
    /\ last.op \in FrameOps
    /\ last.res = "decode"
    /\ State(last.sess) = "Publishing"
    /\ h[last.sess].ffmpegCmd # Nil
    /\ h[last.sess].ffmpegIn = h[last.sess].flvEnc
    /\ pipes[h[last.sess].flvEnc].encodes = 1
    /\ pipes[h[last.sess].flvEnc].tags = <<>>

====
